---- MODULE Spec2Model ----
(***************************************************************************)
(* The ISO7816-4 file-system model of pySim (pySim/filesystem.py): the     *)
(* File / DF / MF / ADF / EF classes, the tree-assembly operations         *)
(* (constructors, DF.add_file, DF.add_files, MF.add_application), the       *)
(* selection resolver (get_selectables, get_mf, fully_qualified_path) and   *)
(* the RuntimeState session (select, read/update binary/record).            *)
(*                                                                         *)
(* Objects live in a heap `nodes`: a sequence of records, the index being   *)
(* the object's identity.  Index 1 is the MF built by MF().  A parent of 0  *)
(* is Python's None.  Optional strings use the sentinel None; the optional  *)
(* numeric sfid is a set with at most one element.                          *)
(***************************************************************************)
EXTENDS Integers, Sequences, FiniteSets, TLC

VARIABLES
    nodes,          \* the heap of File objects
    selected_file,  \* RuntimeState.selected_file (a heap index)
    last,           \* outcome of the last operation: exception, transport calls
    codec,          \* a leaf outside any tree, a value, and the last codec call on them
    registered,     \* the command sets registered at the shell (cmd_app)
    shell           \* PysimApp: its path and prompt, and the commands it completed

vars == <<nodes, selected_file, last, codec, registered, shell>>

-----------------------------------------------------------------------------
(* Bounds of the model *)

\* number of File objects constructed besides the MF
MaxNodes == 2
\* total number of entries in the child maps of all directories
MaxEntries == 2
\* length of the byte strings handed to the codec
MaxLen == 3
\* largest record length of a TransRecEF
MaxRecLen == 2
\* number of select commands typed into the shell
MaxCmds == 3

-----------------------------------------------------------------------------
(* Values *)

\* Python's None where a string is expected
None == "<None>"

RESERVED_NAMES == {"..", ".", "/", "MF"}
RESERVED_FIDS == {"3f00"}

AID_USIM == "a0000000871002"
AID_ISIM == "a0000000871004"

\* str.lower() on the file identifiers the model constructs
Lower(s) ==
    CASE s = "3F00" -> "3f00"
      [] s = "6F07" -> "6f07"
      [] OTHER -> s

\* isinstance(x, DF): DF, MF(DF), ADF(DF)
IsDF(cls) == cls \in {"DF", "MF", "ADF"}
\* isinstance(x, ADF)
IsADF(cls) == cls = "ADF"
\* isinstance(x, EF): every leaf class
IsEF(cls) == cls \in {"TransparentEF", "TransRecEF", "LinFixedEF", "CyclicEF"}
\* seeded fault: an exact type test, which leaves out the subclass TransRecEF
IsTransparentEF_exact(cls) == cls = "TransparentEF"
\* isinstance(x, TransparentEF): TransparentEF, TransRecEF(TransparentEF)
IsTransparentEF(cls) == cls \in {"TransparentEF", "TransRecEF"}
\* seeded fault: an exact type test, which leaves out the subclass CyclicEF
IsLinFixedEF_exact(cls) == cls = "LinFixedEF"
\* isinstance(x, LinFixedEF): LinFixedEF, CyclicEF(LinFixedEF)
IsLinFixedEF(cls) == cls \in {"LinFixedEF", "CyclicEF"}

\* The constructor calls of the tree-assembly step, in the order the assembly
\* script makes them.  aid is used by ADF only.  Entry 6 is the leaf of the
\* __main__ example, entry 1 its application.  impl is the class of fs_sim.py
\* whose codec methods the object has (entry 6 those of EF_IMSI, entry 7 those
\* of EF_MSISDN; entry 8 is a TransRecEF like EF_PLMNsel, with rec_len 3), None
\* for an object of the class of filesystem.py itself.
Catalogue ==
    << [cls |-> "ADF",           fid |-> None,   sfid |-> {},  name |-> "ADF_USIM", aid |-> AID_USIM,
        impl |-> None, rec_len |-> {}],
       [cls |-> "ADF",           fid |-> "6f05", sfid |-> {},  name |-> None,       aid |-> AID_USIM,
        impl |-> None, rec_len |-> {}],
       [cls |-> "ADF",           fid |-> None,   sfid |-> {},  name |-> "MF",       aid |-> AID_ISIM,
        impl |-> None, rec_len |-> {}],
       [cls |-> "DF",            fid |-> "5f3a", sfid |-> {},  name |-> "ADF_USIM", aid |-> None,
        impl |-> None, rec_len |-> {}],
       [cls |-> "DF",            fid |-> None,   sfid |-> {},  name |-> "DF.GSM",   aid |-> None,
        impl |-> None, rec_len |-> {}],
       [cls |-> "TransparentEF", fid |-> "6f07", sfid |-> {},  name |-> "EF.IMSI",  aid |-> None,
        impl |-> "EF_IMSI", rec_len |-> {}],
       [cls |-> "LinFixedEF",    fid |-> "6F07", sfid |-> {7}, name |-> None,       aid |-> None,
        impl |-> "EF_MSISDN", rec_len |-> {}],
       [cls |-> "TransRecEF",    fid |-> "6f05", sfid |-> {7}, name |-> "EF.LI",    aid |-> None,
        impl |-> None, rec_len |-> {3}],
       [cls |-> "CyclicEF",      fid |-> "6f39", sfid |-> {},  name |-> "EF.IMSI",  aid |-> None,
        impl |-> None, rec_len |-> {}],
       [cls |-> "TransparentEF", fid |-> "3F00", sfid |-> {},  name |-> None,       aid |-> None,
        impl |-> None, rec_len |-> {}] >>

\* the calls of the script a card session is assembled from
SessionScript == {1, 6, 7, 8, 9}

\* The identifiers handed to select
Identifiers ==
    { ".", "..", "MF", "3f00", "ADF_USIM", AID_USIM,
      "6f05", "6f07", "6f39", "EF.IMSI", "EF.LI", "zzz" }

\* What the card transport answers: the status word of its result, success or
\* a failure that is handed back like any other status
SW_OK == "9000"
SW_NOT_FOUND == "6a82"
TransportResults == {SW_OK, SW_NOT_FOUND}

\* arguments of the read / update operations
Lengths == {{}, {9}}
Offsets == {0}
RecNrs == {1, 2}
DataHex == {"00"}

-----------------------------------------------------------------------------
(* Python dicts as functions; `a |= b` is Upd(a, b) *)

EmptyDict == [k \in {} |-> 0]
One(k, v) == [x \in {k} |-> v]
Max(S) == CHOOSE x \in S : \A y \in S : y <= x
Upd(a, b) == [k \in (DOMAIN a) \cup (DOMAIN b) |-> IF k \in DOMAIN b THEN b[k] ELSE a[k]]

Ok(h) == [heap |-> h, err |-> "none"]
Raise(h, e) == [heap |-> h, err |-> e]

-----------------------------------------------------------------------------
(* DF: lookups and insertion *)

\* DF.lookup_file_by_name: TRUE when a child is found (the callers test truthiness)
lookup_file_by_name(h, d, name) ==
    /\ name # None
    /\ \E i \in 1..Len(h[d].children) :
          LET x == h[h[d].children[i]] IN x.name # None /\ x.name = name

\* DF.lookup_file_by_sfid
lookup_file_by_sfid(h, d, sfid) ==
    /\ sfid # {}
    /\ \E i \in 1..Len(h[d].children) : h[h[d].children[i]].sfid = sfid

\* `child.fid in self.children`
fid_in_children(h, d, fid) ==
    \E i \in 1..Len(h[d].children) : h[h[d].children[i]].fid = fid

\* seeded fault: with ignore_existing a duplicate name falls through to the insertion
add_file_name_fallthrough(h, d, c, ig) ==
    IF h[c].name \in RESERVED_NAMES THEN Raise(h, "ValueError")
    ELSE IF h[c].fid \in RESERVED_FIDS THEN Raise(h, "ValueError")
    ELSE IF fid_in_children(h, d, h[c].fid)
         THEN (IF ig THEN Ok(h) ELSE Raise(h, "ValueError"))
    ELSE IF lookup_file_by_sfid(h, d, h[c].sfid) THEN Raise(h, "ValueError")
    ELSE IF lookup_file_by_name(h, d, h[c].name) /\ ~ig THEN Raise(h, "ValueError")
    ELSE Ok([h EXCEPT ![d].children = Append(@, c), ![c].parent = d])

\* DF.add_file(self = d, child = c, ignore_existing = ig)
add_file(h, d, c, ig) ==
    IF h[c].name \in RESERVED_NAMES THEN Raise(h, "ValueError")
    ELSE IF h[c].fid \in RESERVED_FIDS THEN Raise(h, "ValueError")
    ELSE IF fid_in_children(h, d, h[c].fid)
         THEN (IF ig THEN Ok(h) ELSE Raise(h, "ValueError"))
    ELSE IF lookup_file_by_sfid(h, d, h[c].sfid) THEN Raise(h, "ValueError")
    ELSE IF lookup_file_by_name(h, d, h[c].name)
         THEN (IF ig THEN Ok(h) ELSE Raise(h, "ValueError"))
    ELSE Ok([h EXCEPT ![d].children = Append(@, c), ![c].parent = d])

\* seeded fault: a raise in the middle of the list undoes the insertions
\* already made
RECURSIVE InsertOrUndo(_, _, _, _, _)
InsertOrUndo(h0, h, d, cs, ig) ==
    IF cs = <<>> THEN Ok(h)
    ELSE LET r == add_file(h, d, Head(cs), ig) IN
         IF r.err # "none" THEN Raise(h0, r.err)
         ELSE InsertOrUndo(h0, r.heap, d, Tail(cs), ig)
add_files_undo(h, d, cs, ig) == InsertOrUndo(h, h, d, cs, ig)

\* DF.add_files(self = d, children = cs, ignore_existing = ig)
RECURSIVE add_files(_, _, _, _)
add_files(h, d, cs, ig) ==
    IF cs = <<>> THEN Ok(h)
    ELSE LET r == add_file(h, d, Head(cs), ig) IN
         IF r.err # "none" THEN r ELSE add_files(r.heap, d, Tail(cs), ig)

\* `app.aid in self.applications`
aid_in_applications(h, m, aid) ==
    \E i \in 1..Len(h[m].applications) : h[h[m].applications[i]].aid = aid

\* seeded fault: no test for a registered AID, the assignment replaces the entry
add_application_overwrite(h, m, a) ==
    IF h[m].cls # "MF" THEN Raise(h, "AttributeError")
    ELSE IF ~IsADF(h[a].cls) THEN Raise(h, "TypeError")
    ELSE Ok([h EXCEPT ![m].applications = Append(@, a)])

\* MF.add_application(self = m, app = a); a DF or ADF has no such method
add_application(h, m, a) ==
    IF h[m].cls # "MF" THEN Raise(h, "AttributeError")
    ELSE IF ~IsADF(h[a].cls) THEN Raise(h, "TypeError")
    ELSE IF aid_in_applications(h, m, h[a].aid) THEN Raise(h, "ValueError")
    ELSE Ok([h EXCEPT ![m].applications = Append(@, a)])

-----------------------------------------------------------------------------
(* Constructors *)

\* the object File.__init__ / DF.__init__ / ADF.__init__ sets up
NewObject(args, parent) ==
    [cls |-> args.cls,
     fid |-> IF args.fid # None THEN Lower(args.fid) ELSE None,
     sfid |-> args.sfid,
     name |-> args.name,
     aid |-> IF IsADF(args.cls) THEN args.aid ELSE None,
     parent |-> parent,
     children |-> <<>>,
     applications |-> <<>>,
     impl |-> args.impl,
     dead |-> {},
     rec_len |-> args.rec_len]

\* File.__init__ followed by the subclass constructors (DF, ADF, EF and below).
\* An object whose constructor raises stays on the heap only when something
\* already refers to it (the parent's child map).  The constructors of the
\* classes of fs_sim.py take no parent: the call with one raises TypeError
\* before anything is constructed.
Construct(h, args, parent) ==
    IF args.impl # None /\ parent # 0 THEN Raise(h, "TypeError")
    ELSE IF ~IsADF(args.cls) /\ args.fid = None THEN Raise(h, "ValueError")
    ELSE
      LET self == Len(h) + 1
          h1 == Append(h, NewObject(args, parent))
          r1 == IF parent # 0 /\ h1[self].fid # None
                THEN add_file(h1, parent, self, FALSE)
                ELSE Ok(h1)
      IN IF r1.err # "none" THEN Raise(h, r1.err)
         ELSE IF IsADF(args.cls) /\ parent # 0
              THEN LET r2 == add_application(r1.heap, parent, self) IN
                   IF r2.err = "none" THEN r2
                   ELSE IF h1[self].fid # None THEN Raise(r1.heap, r2.err)
                   ELSE Raise(h, r2.err)
              ELSE r1

\* the MF built by MF(): fid '3f00', name 'MF', parent = self
MFObject ==
    [cls |-> "MF", fid |-> "3f00", sfid |-> {}, name |-> "MF", aid |-> None,
     parent |-> 1, children |-> <<>>, applications |-> <<>>,
     impl |-> None, dead |-> {}, rec_len |-> {}]

-----------------------------------------------------------------------------
(* Codec dispatch *)

\* A value handled by the codec: raw bytes (tag "bytes", data a sequence of
\* byte values), a hex string (tag "hex", data its digits), an int (tag "int",
\* data the number alone), None (tag "none"), a Python list (tag "list", its
\* elements in list), the dict {} (tag "dict"), the dict {'raw': bytes} (tag
\* "raw", data the bytes), the dict EF_ADN makes of a record (tag "adn", data
\* the record it was made from), a dict {k: w} with the one key k (tag k, w the
\* one element of list), the str that is a key k (tag "str", the key as the tag
\* of the one element of list), one character of such a str (tag "char"), and
\* what a function fn of pySim.utils returned for an argument (tag fn, the
\* argument the one element of list).
Value(tag, data) == [tag |-> tag, data |-> data, list |-> <<>>]
ListValue(vs) == [tag |-> "list", data |-> <<>>, list |-> vs]
NoValue == Value("none", <<>>)
IntValue(n) == Value("int", <<n>>)
Dict(k, w) == [tag |-> k, data |-> <<>>, list |-> <<w>>]
EmptyDictValue == Value("dict", <<>>)
KeyStr(k) == [tag |-> "str", data |-> <<>>, list |-> <<Value(k, <<>>)>>]

CodecOk(v) == [err |-> "none", val |-> v]
CodecRaise(e) == [err |-> e, val |-> NoValue]

\* the keys the codec methods of fs_sim.py look up
DictKeys == {"acc", "imsi", "msisdn", "spn"}
IsDict(v) == v.tag \in DictKeys \cup {"raw", "adn", "dict"}

\* abstract[k]: a value that is no dict cannot be subscripted with a str, a
\* dict without the key raises KeyError
Subscript(v, k) ==
    IF ~IsDict(v) THEN CodecRaise("TypeError")
    ELSE IF v.tag # k THEN CodecRaise("KeyError")
    ELSE CodecOk(v.list[1])

\* dec_imsi, enc_imsi, dec_msisdn, enc_msisdn, dec_spn, enc_spn of pySim.utils
\* (from pySim.utils import *), a module that is not among the sources: the
\* call is taken to return, and its result stands for itself
Util(fn, arg) == [tag |-> fn, data |-> <<>>, list |-> <<arg>>]

\* the codec methods a leaf class may define
TransparentHooks == {"_decode_bin", "_decode_hex", "_encode_bin", "_encode_hex"}
RecordHooks ==
    {"_decode_record_bin", "_decode_record_hex", "_encode_record_bin", "_encode_record_hex"}

\* the codec methods the classes of fs_sim.py define
HooksOf(impl) ==
    CASE impl = "EF_ADN" -> {"_decode_record_bin"}
      [] impl = "EF_MSISDN" -> {"_decode_record_hex", "_encode_record_hex"}
      [] impl \in {"EF_IMSI", "EF_SPN"} -> {"_decode_hex", "_encode_hex"}
      [] impl \in {"EF_ServiceTable", "EF_AD"} -> {"_decode_bin"}
      [] impl = "EF_ACC" -> {"_decode_bin", "_encode_bin"}
      [] OTHER -> {}

\* getattr(self, hook): the attribute is missing ("absent"), a method of the
\* leaf's class ("callable"), or bound to something that is not callable.
\* TransRecEF itself defines _decode_bin and _encode_bin.
HookState(f, hook) ==
    IF hook \in f.dead THEN "notcallable"
    ELSE IF hook \in HooksOf(f.impl) THEN "callable"
    ELSE IF f.cls = "TransRecEF" /\ hook \in {"_decode_bin", "_encode_bin"} THEN "callable"
    ELSE "absent"

\* EF_ADN._decode_record_bin: unpack('!BB10sBB', raw_bin_data[-14:])
EF_ADN_decode_record_bin(x) ==
    IF Len(x.data) < 14 THEN CodecRaise("struct.error")
    ELSE CodecOk(Value("adn", x.data))

\* EF_MSISDN._decode_record_hex, EF_IMSI._decode_hex, EF_SPN._decode_hex:
\* {key: dec_key(raw_hex)}
DecodeThroughUtil(key, fn, x) == CodecOk(Dict(key, Util(fn, x)))

\* EF_MSISDN._encode_record_hex, EF_IMSI._encode_hex, EF_SPN._encode_hex:
\* enc_key(abstract[key])
EncodeThroughUtil(key, fn, v) ==
    LET s == Subscript(v, key) IN
    IF s.err # "none" THEN s ELSE CodecOk(Util(fn, s.val))

\* EF_ServiceTable._decode_bin: the loop body indexes raw_bin with the float
\* i/4; without a byte the loop does not run, and the method returns nothing
EF_ServiceTable_decode_bin(x) ==
    IF x.data = <<>> THEN CodecOk(NoValue) ELSE CodecRaise("TypeError")

\* EF_ACC._decode_bin: {'acc': unpack('!H', raw_bin)[0]}
EF_ACC_decode_bin(x) ==
    IF Len(x.data) # 2 THEN CodecRaise("struct.error")
    ELSE CodecOk(Dict("acc", IntValue(x.data[1] * 256 + x.data[2])))

\* EF_ACC._encode_bin: pack('!H', abstract['acc'])
EF_ACC_encode_bin(v) ==
    LET s == Subscript(v, "acc") IN
    IF s.err # "none" THEN s
    ELSE IF s.val.tag = "int" /\ s.val.data[1] \in 0..65535
         THEN CodecOk(Value("bytes", <<s.val.data[1] \div 256, s.val.data[1] % 256>>))
         ELSE CodecRaise("struct.error")

\* EF_AD._decode_bin: unpack('!BH', raw_bin[:3]), and no return statement
EF_AD_decode_bin(x) ==
    IF Len(x.data) < 3 THEN CodecRaise("struct.error") ELSE CodecOk(NoValue)

\* method(x) for the codec method hook of the class f.impl
UserHook(f, hook, x) ==
    CASE f.impl = "EF_ADN" /\ hook = "_decode_record_bin" -> EF_ADN_decode_record_bin(x)
      [] f.impl = "EF_MSISDN" /\ hook = "_decode_record_hex" ->
            DecodeThroughUtil("msisdn", "dec_msisdn", x)
      [] f.impl = "EF_MSISDN" /\ hook = "_encode_record_hex" ->
            EncodeThroughUtil("msisdn", "enc_msisdn", x)
      [] f.impl = "EF_IMSI" /\ hook = "_decode_hex" -> DecodeThroughUtil("imsi", "dec_imsi", x)
      [] f.impl = "EF_IMSI" /\ hook = "_encode_hex" -> EncodeThroughUtil("imsi", "enc_imsi", x)
      [] f.impl = "EF_SPN" /\ hook = "_decode_hex" -> DecodeThroughUtil("spn", "dec_spn", x)
      [] f.impl = "EF_SPN" /\ hook = "_encode_hex" -> EncodeThroughUtil("spn", "enc_spn", x)
      [] f.impl = "EF_ServiceTable" /\ hook = "_decode_bin" -> EF_ServiceTable_decode_bin(x)
      [] f.impl = "EF_ACC" /\ hook = "_decode_bin" -> EF_ACC_decode_bin(x)
      [] f.impl = "EF_ACC" /\ hook = "_encode_bin" -> EF_ACC_encode_bin(x)
      [] f.impl = "EF_AD" /\ hook = "_decode_bin" -> EF_AD_decode_bin(x)
      [] OTHER -> CodecRaise("AttributeError")

\* The second half of each dispatch method: the first hook was there but not
\* callable.  The call through the second hook converts with h2b / b2h, names
\* the module never imports.
Fallback(f, second, rest) ==
    CASE HookState(f, second) = "absent" -> CodecRaise("AttributeError")
      [] HookState(f, second) = "callable" -> CodecRaise("NameError")
      [] OTHER -> rest

\* LinFixedEF / TransRecEF .decode_record_hex(raw_hex_data)
decode_record_hex(f, x) ==
    CASE HookState(f, "_decode_record_hex") = "absent" -> CodecRaise("AttributeError")
      [] HookState(f, "_decode_record_hex") = "callable" ->
            UserHook(f, "_decode_record_hex", x)
      [] OTHER -> Fallback(f, "_decode_record_bin", CodecRaise("NameError"))

\* LinFixedEF / TransRecEF .decode_record_bin(raw_bin_data)
decode_record_bin(f, x) ==
    CASE HookState(f, "_decode_record_bin") = "absent" -> CodecRaise("AttributeError")
      [] HookState(f, "_decode_record_bin") = "callable" ->
            UserHook(f, "_decode_record_bin", x)
      [] OTHER -> Fallback(f, "_decode_record_hex", CodecOk(Value("raw", x.data)))

\* LinFixedEF / TransRecEF .encode_record_hex(abstract_data)
encode_record_hex(f, v) ==
    CASE HookState(f, "_encode_record_hex") = "absent" -> CodecRaise("AttributeError")
      [] HookState(f, "_encode_record_hex") = "callable" ->
            UserHook(f, "_encode_record_hex", v)
      [] OTHER -> Fallback(f, "_encode_record_bin", CodecRaise("NotImplementedError"))

\* LinFixedEF / TransRecEF .encode_record_bin(abstract_data)
encode_record_bin(f, v) ==
    CASE HookState(f, "_encode_record_bin") = "absent" -> CodecRaise("AttributeError")
      [] HookState(f, "_encode_record_bin") = "callable" ->
            UserHook(f, "_encode_record_bin", v)
      [] OTHER -> Fallback(f, "_encode_record_hex", CodecRaise("NotImplementedError"))

Min(a, b) == IF a <= b THEN a ELSE b

\* [raw[i:i+rec_len] for i in range(0, len(raw), rec_len)]
Chunks(raw, rec_len) ==
    LET n == (Len(raw) + rec_len - 1) \div rec_len IN
    [i \in 1..n |-> SubSeq(raw, (i - 1) * rec_len + 1, Min(i * rec_len, Len(raw)))]

\* b''.join(chunks)
RECURSIVE Join(_)
Join(chunks) == IF chunks = <<>> THEN <<>> ELSE Head(chunks) \o Join(Tail(chunks))

\* TransRecEF._decode_bin(raw_bin_data); rec_len None or 0 makes range() raise
TransRecEF_decode_bin(f, x) ==
    IF f.rec_len = {} THEN CodecRaise("TypeError")
    ELSE IF f.rec_len = {0} THEN CodecRaise("ValueError")
    ELSE LET chunks == Chunks(x.data, CHOOSE r \in f.rec_len : TRUE)
             recs == [i \in 1..Len(chunks) |-> decode_record_bin(f, Value("bytes", chunks[i]))]
             bad == {i \in 1..Len(chunks) : recs[i].err # "none"}
         IN IF bad # {} THEN CodecRaise(recs[CHOOSE i \in bad : \A j \in bad : i <= j].err)
            ELSE CodecOk(ListValue([i \in 1..Len(chunks) |-> recs[i].val]))

\* for x in v: a list, bytes, a str and a dict can be iterated, None and an
\* int cannot
Iterable(v) == v.tag \in {"list", "bytes", "hex", "str", "char"} \/ IsDict(v)

\* the keys of the dict EF_ADN._decode_record_bin returns, in the order the
\* dict display names them
AdnKeys ==
    <<"alpha_id", "len_of_bcd", "ton_npi", "dialing_nr", "cap_conf_id", "ext1_record_id">>

\* len(k) for the keys
KeyLen(k) ==
    CASE k \in {"acc", "spn", "raw"} -> 3
      [] k = "imsi" -> 4
      [] k = "msisdn" -> 6
      [] k = "ton_npi" -> 7
      [] k = "alpha_id" -> 8
      [] k \in {"len_of_bcd", "dialing_nr"} -> 10
      [] k = "cap_conf_id" -> 11
      [] k = "ext1_record_id" -> 14

\* what for x in v yields: the elements of a list, the bytes as ints, the
\* characters of a str (tag "char": the str and the position), the keys of a
\* dict
Items(v) ==
    CASE v.tag = "list" -> v.list
      [] v.tag = "bytes" -> [i \in 1..Len(v.data) |-> IntValue(v.data[i])]
      [] v.tag = "hex" -> [i \in 1..Len(v.data) |-> Value("hex", <<v.data[i]>>)]
      [] v.tag = "str" ->
            [i \in 1..KeyLen(v.list[1].tag) |-> [tag |-> "char", data |-> <<i>>, list |-> v.list]]
      [] v.tag = "char" -> <<v>>
      [] v.tag \in DictKeys \cup {"raw"} -> <<KeyStr(v.tag)>>
      [] v.tag = "adn" -> [i \in 1..Len(AdnKeys) |-> KeyStr(AdnKeys[i])]
      [] OTHER -> <<>>

\* TransRecEF._encode_bin(abstract_data):
\* b''.join([self.encode_record_bin(x) for x in abstract_data])
TransRecEF_encode_bin(f, v) ==
    IF ~Iterable(v) THEN CodecRaise("TypeError")
    ELSE LET items == Items(v)
             recs == [i \in 1..Len(items) |-> encode_record_bin(f, items[i])]
             bad == {i \in 1..Len(items) : recs[i].err # "none"}
         IN IF bad # {} THEN CodecRaise(recs[CHOOSE i \in bad : \A j \in bad : i <= j].err)
            ELSE IF \E i \in 1..Len(items) : recs[i].val.tag # "bytes"
                 THEN CodecRaise("TypeError")
                 ELSE CodecOk(Value("bytes", Join([i \in 1..Len(items) |-> recs[i].val.data])))

\* TransparentEF.decode_bin(raw_bin_data)
decode_bin(f, x) ==
    CASE HookState(f, "_decode_bin") = "absent" -> CodecRaise("AttributeError")
      [] HookState(f, "_decode_bin") = "callable" ->
            IF "_decode_bin" \in HooksOf(f.impl) THEN UserHook(f, "_decode_bin", x)
            ELSE TransRecEF_decode_bin(f, x)
      [] OTHER -> Fallback(f, "_decode_hex", CodecOk(Value("raw", x.data)))

\* TransparentEF.decode_hex(raw_hex_data)
decode_hex(f, x) ==
    CASE HookState(f, "_decode_hex") = "absent" -> CodecRaise("AttributeError")
      [] HookState(f, "_decode_hex") = "callable" -> UserHook(f, "_decode_hex", x)
      [] OTHER -> Fallback(f, "_decode_bin", CodecRaise("NameError"))

\* TransparentEF.encode_bin(abstract_data)
encode_bin(f, v) ==
    CASE HookState(f, "_encode_bin") = "absent" -> CodecRaise("AttributeError")
      [] HookState(f, "_encode_bin") = "callable" ->
            IF "_encode_bin" \in HooksOf(f.impl) THEN UserHook(f, "_encode_bin", v)
            ELSE TransRecEF_encode_bin(f, v)
      [] OTHER -> Fallback(f, "_encode_hex", CodecRaise("NotImplementedError"))

\* TransparentEF.encode_hex(abstract_data)
encode_hex(f, v) ==
    CASE HookState(f, "_encode_hex") = "absent" -> CodecRaise("AttributeError")
      [] HookState(f, "_encode_hex") = "callable" -> UserHook(f, "_encode_hex", v)
      [] OTHER -> Fallback(f, "_encode_bin", CodecRaise("NotImplementedError"))

-----------------------------------------------------------------------------
(* Selection resolver *)

SelOk(d) == [err |-> "none", sels |-> d]
SelRaise(e) == [err |-> e, sels |-> EmptyDict]

\* File._get_self_selectables(self = n, alias)
get_self_selectables(h, n, alias) ==
    LET s0 == IF alias # None THEN One(alias, n) ELSE EmptyDict
        s1 == IF h[n].fid # None THEN Upd(s0, One(h[n].fid, n)) ELSE s0
    IN IF h[n].name # None THEN Upd(s1, One(h[n].name, n)) ELSE s1

\* the loop of File.get_mf: climbs while node.parent != node.  Reading .parent
\* of None raises AttributeError; a parent cycle never ends.  fuel counts the
\* objects not yet visited.
RECURSIVE MfWalk(_, _, _)
MfWalk(h, node, fuel) ==
    IF h[node].parent = node THEN [err |-> "none", mf |-> node]
    ELSE IF h[node].parent = 0 THEN [err |-> "AttributeError", mf |-> 0]
    ELSE IF fuel = 0 THEN [err |-> "NonTermination", mf |-> 0]
    ELSE MfWalk(h, h[node].parent, fuel - 1)

\* File.get_mf(self = n); mf = 0 is None
get_mf(h, n) ==
    IF h[n].parent = 0 THEN [err |-> "none", mf |-> 0]
    ELSE MfWalk(h, n, Len(h))

\* {x.aid: x for x in applications.values()}, then the named ones by name
AidDict(h, as) ==
    [k \in {h[as[i]].aid : i \in 1..Len(as)} |->
        as[Max({i \in 1..Len(as) : h[as[i]].aid = k})]]
AppNameDict(h, as) ==
    LET idx == {i \in 1..Len(as) : h[as[i]].name # None} IN
    [k \in {h[as[i]].name : i \in idx} |-> as[Max({i \in idx : h[as[i]].name = k})]]

\* MF.get_app_selectables(self = m)
get_app_selectables(h, m) ==
    Upd(AidDict(h, h[m].applications), AppNameDict(h, h[m].applications))

\* seeded fault: a walk to the root that fails is taken as "no MF", and the
\* parent's entries are returned
File_get_selectables_noroot(h, n) ==
    IF h[n].parent = 0 THEN SelRaise("AttributeError")
    ELSE LET sels == get_self_selectables(h, h[n].parent, "..")
             m == get_mf(h, n)
         IN IF m.err # "none" \/ m.mf = 0 THEN SelOk(sels)
            ELSE IF h[m.mf].cls # "MF" THEN SelRaise("AttributeError")
            ELSE SelOk(Upd(sels, get_app_selectables(h, m.mf)))

\* File.get_selectables(self = n): the '.' entry is computed and then replaced
\* by the parent's entries
File_get_selectables(h, n) ==
    IF h[n].parent = 0 THEN SelRaise("AttributeError")
    ELSE LET sels == get_self_selectables(h, h[n].parent, "..")
             m == get_mf(h, n)
         IN IF m.err # "none" THEN SelRaise(m.err)
            ELSE IF m.mf = 0 THEN SelOk(sels)
            ELSE IF h[m.mf].cls # "MF" THEN SelRaise("AttributeError")
            ELSE SelOk(Upd(sels, get_app_selectables(h, m.mf)))

\* {x.fid: x for x in children.values() if x.fid}
ChildFidDict(h, cs) ==
    LET idx == {i \in 1..Len(cs) : h[cs[i]].fid # None} IN
    [k \in {h[cs[i]].fid : i \in idx} |-> cs[Max({i \in idx : h[cs[i]].fid = k})]]
\* {x.name: x for x in children.values() if x.name}
ChildNameDict(h, cs) ==
    LET idx == {i \in 1..Len(cs) : h[cs[i]].name # None} IN
    [k \in {h[cs[i]].name : i \in idx} |-> cs[Max({i \in idx : h[cs[i]].name = k})]]
\* {x.name: x for x in self.parent.children.values() if x != self}
SiblingDict(h, cs, self) ==
    LET idx == {i \in 1..Len(cs) : cs[i] # self} IN
    [k \in {h[cs[i]].name : i \in idx} |-> cs[Max({i \in idx : h[cs[i]].name = k})]]

\* DF.get_selectables
DF_get_selectables(h, n) ==
    LET g == File_get_selectables(h, n) IN
    IF g.err # "none" THEN g
    ELSE SelOk(Upd(Upd(g.sels, ChildFidDict(h, h[n].children)),
                   ChildNameDict(h, h[n].children)))

\* MF.get_selectables
MF_get_selectables(h, n) ==
    LET g == DF_get_selectables(h, n) IN
    IF g.err # "none" THEN g
    ELSE SelOk(Upd(g.sels, get_app_selectables(h, n)))

\* EF.get_selectables
EF_get_selectables(h, n) ==
    LET g == File_get_selectables(h, n) IN
    IF g.err # "none" THEN g
    ELSE SelOk(Upd(g.sels, SiblingDict(h, h[h[n].parent].children, n)))

\* n.get_selectables(), dispatched on the class of n
get_selectables(h, n) ==
    IF h[n].cls = "MF" THEN MF_get_selectables(h, n)
    ELSE IF IsDF(h[n].cls) THEN DF_get_selectables(h, n)
    ELSE EF_get_selectables(h, n)

\* File._path_element / ADF._path_element
path_element(h, n, prefer_name) ==
    IF prefer_name /\ h[n].name # None THEN h[n].name
    ELSE IF IsADF(h[n].cls) THEN h[n].aid
    ELSE h[n].fid

\* File.fully_qualified_path(self = n, prefer_name): recursion towards the
\* parent; depth counts the frames left before every object was visited once
RECURSIVE PathWalk(_, _, _, _)
PathWalk(h, n, prefer_name, depth) ==
    IF h[n].parent = n THEN [err |-> "none", path |-> <<path_element(h, n, prefer_name)>>]
    ELSE IF h[n].parent = 0 THEN [err |-> "AttributeError", path |-> <<>>]
    ELSE IF depth = 0 THEN [err |-> "RecursionError", path |-> <<>>]
    ELSE LET r == PathWalk(h, h[n].parent, prefer_name, depth - 1) IN
         IF r.err # "none" THEN r
         ELSE [err |-> "none", path |-> Append(r.path, path_element(h, n, prefer_name))]

fully_qualified_path(h, n, prefer_name) == PathWalk(h, n, prefer_name, Len(h))

-----------------------------------------------------------------------------
(* RuntimeState: the session operations, as functions of the heap, the       *)
(* selected file, the arguments and the transport's answer t                 *)

NoCalls == <<>>
Call(fn, key, args, t) == [fn |-> fn, key |-> key, args |-> args, sw |-> t]

\* RuntimeState.select(name): sel is selected_file afterwards.  What the
\* transport call returns is not looked at.
select(h, cur, name, t) ==
    LET g == get_selectables(h, cur) IN
    IF g.err # "none" THEN [err |-> g.err, calls |-> NoCalls, sel |-> cur]
    ELSE IF name \in DOMAIN g.sels
    THEN LET f == g.sels[name]
             call == IF IsADF(h[f].cls)
                     THEN Call("select_adf", h[f].aid, <<>>, t)
                     ELSE Call("select_file", h[f].fid, <<>>, t)
         IN [err |-> "none", calls |-> <<call>>, sel |-> f]
    ELSE [err |-> "ValueError", calls |-> NoCalls, sel |-> cur]

\* self.shell_commands of object n: File.__init__ starts the list empty,
\* TransparentEF.__init__ and LinFixedEF.__init__ (and so their subclasses) add
\* one ShellCommands object of their own, here named by its owner, and so does
\* ADF_USIM.__init__ of fs_sim.py; the other directories add none.  (The
\* assembly script builds its application with ADF(), as __main__ does:
\* ADF_USIM() alone makes twenty objects.)
shell_commands(h, n) ==
    IF IsEF(h[n].cls) \/ (IsADF(h[n].cls) /\ h[n].impl = "ADF_USIM") THEN {n} ELSE {}

\* RuntimeState.select(name, cmd_app): the command sets registered at cmd_app
\* afterwards.  The old file's sets are unregistered before the transport call,
\* the new file's are registered after selected_file was assigned, whatever
\* status t the call returned.
select_cmd_app(h, cur, name, t, reg) ==
    LET g == get_selectables(h, cur) IN
    IF g.err # "none" \/ name \notin DOMAIN g.sels THEN reg
    ELSE (reg \ shell_commands(h, cur)) \cup shell_commands(h, g.sels[name])

\* the transport call the four raw operations delegate to: what it returns is
\* handed back as it is
Delegate(call) == [err |-> "none", calls |-> <<call>>]

\* RuntimeState.read_binary(length, offset)
read_binary(h, cur, length, offset, t) ==
    IF ~IsTransparentEF(h[cur].cls) THEN [err |-> "TypeError", calls |-> NoCalls]
    ELSE Delegate(Call("read_binary", h[cur].fid, <<length, offset>>, t))

\* RuntimeState.update_binary(data_hex, offset)
update_binary(h, cur, data_hex, offset, t) ==
    IF ~IsTransparentEF(h[cur].cls) THEN [err |-> "TypeError", calls |-> NoCalls]
    ELSE Delegate(Call("update_binary", h[cur].fid, <<data_hex, offset>>, t))

\* RuntimeState.read_record(rec_nr)
read_record(h, cur, rec_nr, t) ==
    IF ~IsLinFixedEF(h[cur].cls) THEN [err |-> "TypeError", calls |-> NoCalls]
    ELSE Delegate(Call("read_record", h[cur].fid, <<rec_nr>>, t))

\* RuntimeState.update_record(rec_nr, data_hex)
update_record(h, cur, rec_nr, data_hex, t) ==
    IF ~IsLinFixedEF(h[cur].cls) THEN [err |-> "TypeError", calls |-> NoCalls]
    ELSE Delegate(Call("update_record", h[cur].fid, <<rec_nr, data_hex>>, t))

\* what a transport read hands back as data, and the abstract value handed to
\* the decoded updates
ReadData == Value("hex", <<1, 2>>)
\* the values handed to the decoded updates: {'imsi': '12'}, {'msisdn': '12'}
AbstractValues ==
    {Dict("imsi", Value("hex", <<1, 2>>)), Dict("msisdn", Value("hex", <<1, 2>>))}

NoRet == [val |-> NoValue, sw |-> "none"]
DecRaise(e, calls) == [err |-> e, calls |-> calls, ret |-> NoRet]

\* RuntimeState.read_binary_dec()
read_binary_dec(h, cur, t) ==
    LET r == read_binary(h, cur, {}, 0, t) IN
    IF r.err # "none" THEN DecRaise(r.err, r.calls)
    ELSE LET d == decode_hex(h[cur], ReadData) IN
         IF d.err # "none" THEN DecRaise(d.err, r.calls)
         ELSE [err |-> "none", calls |-> r.calls, ret |-> [val |-> d.val, sw |-> t]]

\* RuntimeState.update_binary_dec(data): selected_file.encode_hex exists on
\* TransparentEF and below only; the call of update_binary names data_hex,
\* which is not defined
update_binary_dec(h, cur, data) ==
    IF ~IsTransparentEF(h[cur].cls) THEN DecRaise("AttributeError", NoCalls)
    ELSE LET e == encode_hex(h[cur], data) IN
         IF e.err # "none" THEN DecRaise(e.err, NoCalls)
         ELSE DecRaise("NameError", NoCalls)

\* RuntimeState.read_record_dec(rec_nr)
read_record_dec(h, cur, rec_nr, t) ==
    LET r == read_record(h, cur, rec_nr, t) IN
    IF r.err # "none" THEN DecRaise(r.err, r.calls)
    ELSE LET d == decode_record_hex(h[cur], ReadData) IN
         IF d.err # "none" THEN DecRaise(d.err, r.calls)
         ELSE [err |-> "none", calls |-> r.calls, ret |-> [val |-> d.val, sw |-> t]]

\* RuntimeState.update_record_dec(rec_nr, data): selected_file.encode_record_hex
\* exists on LinFixedEF, CyclicEF and TransRecEF; the call of update_record
\* names data_hex, which is not defined
update_record_dec(h, cur, rec_nr, data) ==
    IF ~(IsLinFixedEF(h[cur].cls) \/ h[cur].cls = "TransRecEF")
    THEN DecRaise("AttributeError", NoCalls)
    ELSE LET e == encode_record_hex(h[cur], data) IN
         IF e.err # "none" THEN DecRaise(e.err, NoCalls)
         ELSE DecRaise("NameError", NoCalls)

-----------------------------------------------------------------------------
(* The interactive shell (pysim-shell.py): PysimApp and its select commands *)

\* '/'.join(path), as the pieces of the string
RECURSIVE SlashJoin(_)
SlashJoin(path) ==
    IF path = <<>> THEN <<>>
    ELSE IF Len(path) = 1 THEN path
    ELSE <<Head(path), "/">> \o SlashJoin(Tail(path))

\* PysimApp.update_prompt: 'pySIM-shell (%s)> ' % ('/'.join(self.path))
update_prompt(app) ==
    [app EXCEPT !.prompt = <<"pySIM-shell (">> \o SlashJoin(app.path) \o <<")> ">>]

\* the loop of PysimApp.update_path over the elements of its argument
RECURSIVE PathLoop(_, _)
PathLoop(cur, path) ==
    IF path = <<>> THEN cur
    ELSE PathLoop(Append(IF Head(path) = "3f00" THEN <<>> ELSE cur, Head(path)), Tail(path))

\* seeded fault: only a leading '3f00' starts the path afresh
update_path_head(app, path) ==
    update_prompt([app EXCEPT !.path =
        IF path # <<>> /\ Head(path) = "3f00" THEN path ELSE app.path \o path])

\* PysimApp.update_path(path)
update_path(app, path) == update_prompt([app EXCEPT !.path = PathLoop(app.path, path)])

\* PysimApp.set_path(path)
set_path(app, path) == update_prompt([app EXCEPT !.path = path])

\* PysimApp.__init__: self.path = ['3f00']; self.update_prompt(); what follows
\* (the card object, its read_aids(), the banner) leaves path and prompt alone
PysimApp == update_prompt([path |-> <<"3f00">>, prompt |-> <<>>])

\* Iso7816Commands.do_select_file(opts): card._scc.select_file(path) with the
\* whole argument list, its result rv is printed, then update_path(path)
\* whatever the status in rv
do_select_file(app, arg_list, t) ==
    [err |-> "none",
     calls |-> <<Call("select_file", arg_list, <<>>, t)>>,
     app |-> update_path(app, arg_list)]

\* Iso7816Commands.do_select_adf(opts): arg_list[0] of an empty list raises
\* before anything else; card._scc.select_adf(aid), its result rv is printed,
\* then set_path([aid]) whatever the status in rv
do_select_adf(app, arg_list, t) ==
    IF arg_list = <<>> THEN [err |-> "IndexError", calls |-> NoCalls, app |-> app]
    ELSE [err |-> "none",
          calls |-> <<Call("select_adf", arg_list[1], <<>>, t)>>,
          app |-> set_path(app, <<arg_list[1]>>)]

\* the shell before any command
NoCommands == [app |-> PysimApp, done |-> <<>>]

-----------------------------------------------------------------------------
(* State machine *)

Outcome(err, calls) == [err |-> err, calls |-> calls]

\* no codec call made
NoCodec ==
    [leaf |-> [cls |-> "MF", impl |-> None, dead |-> {}, rec_len |-> {}],
     x |-> NoValue, via |-> "none", op |-> "none", arg |-> NoValue, res |-> CodecOk(NoValue)]

Dirs(h) == {i \in 1..Len(h) : IsDF(h[i].cls)}

RECURSIVE SumChildren(_, _)
SumChildren(h, i) == IF i = 0 THEN 0 ELSE Len(h[i].children) + SumChildren(h, i - 1)
Entries(h) == SumChildren(h, Len(h))

\* mf = MF(); rs = RuntimeState(mf, card)
Init ==
    /\ nodes = <<MFObject>>
    /\ selected_file = 1
    /\ last = Outcome("none", NoCalls)
    /\ codec = NoCodec
    /\ registered = {}
    /\ shell = NoCommands

\* position in the assembly script of the call that built object x (0: the MF)
ScriptPos(x) ==
    IF x.cls = "MF" THEN 0
    ELSE CHOOSE i \in 1..Len(Catalogue) :
           /\ Catalogue[i].cls = x.cls
           /\ Lower(Catalogue[i].fid) = x.fid
           /\ Catalogue[i].sfid = x.sfid
           /\ Catalogue[i].name = x.name
           /\ Catalogue[i].aid = x.aid

\* the calls of the script that come after every call already made
Pending == {i \in 1..Len(Catalogue) : \A n \in 1..Len(nodes) : ScriptPos(nodes[n]) < i}

\* the effect of a tree-assembly call with result r
TreeStep(r) ==
    /\ Entries(r.heap) <= MaxEntries
    /\ nodes' = r.heap
    /\ last' = Outcome(r.err, NoCalls)
    /\ UNCHANGED <<selected_file, codec, registered, shell>>

\* cls(fid, sfid, name, parent = parent) / ADF(aid, fid, sfid, name, parent = parent)
NewNode(args, parent) ==
    /\ Len(nodes) < MaxNodes + 1
    /\ TreeStep(Construct(nodes, args, parent))

\* d.add_file(c, ignore_existing = ig)
AddFile(d, c, ig) == TreeStep(add_file(nodes, d, c, ig))

\* d.add_files(cs, ignore_existing = ig): a raise in the middle of the list
\* keeps the insertions already made
AddFiles(d, cs, ig) == TreeStep(add_files(nodes, d, cs, ig))

\* mf.add_application(a)
AddApplication(m, a) == TreeStep(add_application(nodes, m, a))

\* lists of two distinct objects constructed without a parent, in the way of
\* the file lists of fs_sim.py
ChildLists ==
    {cs \in [1..2 -> {c \in 2..Len(nodes) : nodes[c].parent = 0}] : cs[1] # cs[2]}

\* the effect of a session call with result r
SessionStep(r, sel) ==
    /\ selected_file' = sel
    /\ last' = Outcome(r.err, r.calls)
    /\ UNCHANGED <<nodes, codec, registered, shell>>

\* rs.select(name, cmd_app): the session has a shell attached
Select(name, t) ==
    LET r == select(nodes, selected_file, name, t) IN
    /\ selected_file' = r.sel
    /\ last' = Outcome(r.err, r.calls)
    /\ registered' = select_cmd_app(nodes, selected_file, name, t, registered)
    /\ UNCHANGED <<nodes, codec, shell>>

ReadBinary(length, offset, t) ==
    SessionStep(read_binary(nodes, selected_file, length, offset, t), selected_file)

UpdateBinary(data_hex, offset, t) ==
    SessionStep(update_binary(nodes, selected_file, data_hex, offset, t), selected_file)

ReadRecord(rec_nr, t) ==
    SessionStep(read_record(nodes, selected_file, rec_nr, t), selected_file)

UpdateRecord(rec_nr, data_hex, t) ==
    SessionStep(update_record(nodes, selected_file, rec_nr, data_hex, t), selected_file)

\* seeded fault: a failed read falls back to the MF as the selected file
ReadBinaryDec_reset(t) ==
    LET r == read_binary_dec(nodes, selected_file, t) IN
    SessionStep(r, IF r.err = "none" THEN selected_file ELSE 1)

ReadBinaryDec(t) ==
    SessionStep(read_binary_dec(nodes, selected_file, t), selected_file)

UpdateBinaryDec(data) ==
    SessionStep(update_binary_dec(nodes, selected_file, data), selected_file)

ReadRecordDec(rec_nr, t) ==
    SessionStep(read_record_dec(nodes, selected_file, rec_nr, t), selected_file)

UpdateRecordDec(rec_nr, data) ==
    SessionStep(update_record_dec(nodes, selected_file, rec_nr, data), selected_file)

\* Tree assembly alone, over the whole script
NextTree ==
    \/ \E i \in Pending, p \in {0} \cup Dirs(nodes) : NewNode(Catalogue[i], p)
    \/ \E d \in Dirs(nodes), c \in 1..Len(nodes), ig \in BOOLEAN : AddFile(d, c, ig)
    \/ \E d \in Dirs(nodes), cs \in ChildLists, ig \in BOOLEAN : AddFiles(d, cs, ig)
    \/ \E a \in 1..Len(nodes) : AddApplication(1, a)

SpecTree == Init /\ [][NextTree]_vars

\* The files a session's tree still has to place: constructed without a
\* parent and handed to add_file afterwards (an ADF is registered instead)
Detached == {c \in 1..Len(nodes) : nodes[c].parent = 0 /\ ~IsADF(nodes[c].cls)}

\* A card session over a tree assembled from the session script
Next ==
    \/ \E i \in Pending \cap SessionScript, p \in {0} \cup Dirs(nodes) :
          NewNode(Catalogue[i], p)
    \/ \E d \in Dirs(nodes), c \in Detached : AddFile(d, c, FALSE)
    \/ \E a \in 1..Len(nodes) : AddApplication(1, a)
    \/ \E name \in Identifiers, t \in TransportResults : Select(name, t)
    \/ \E l \in Lengths, o \in Offsets, t \in TransportResults : ReadBinary(l, o, t)
    \/ \E x \in DataHex, o \in Offsets, t \in TransportResults : UpdateBinary(x, o, t)
    \/ \E n \in RecNrs, t \in TransportResults : ReadRecord(n, t)
    \/ \E n \in RecNrs, x \in DataHex, t \in TransportResults : UpdateRecord(n, x, t)
    \/ \E t \in TransportResults : ReadBinaryDec(t)
    \/ \E v \in AbstractValues : UpdateBinaryDec(v)
    \/ \E n \in RecNrs, t \in TransportResults : ReadRecordDec(n, t)
    \/ \E n \in RecNrs, v \in AbstractValues : UpdateRecordDec(n, v)

Spec == Init /\ [][Next]_vars

\* The files that are handed to add_file while a session walks the tree: any
\* file but an application, whether it already has a parent or not
Movable == {c \in 2..Len(nodes) : ~IsADF(nodes[c].cls)}

\* A session that only selects, over a tree in which files are also inserted
\* a second time
NextWalk ==
    \/ \E i \in Pending \cap SessionScript, p \in {0} \cup Dirs(nodes) :
          NewNode(Catalogue[i], p)
    \/ \E d \in Dirs(nodes), c \in Movable : AddFile(d, c, FALSE)
    \/ \E a \in 1..Len(nodes) : AddApplication(1, a)
    \/ \E name \in Identifiers, t \in TransportResults : Select(name, t)

SpecWalk == Init /\ [][NextWalk]_vars

\* what is typed after select_file and select_adf
PathElements == {"3f00", "6f07"}
FileArgs == UNION {[1..n -> PathElements] : n \in 0..2}
AdfArgs == {<<>>, <<AID_USIM>>, <<AID_ISIM>>}

\* the effect of a shell command with result r: its transport call is the
\* last one made, and a command that returned is added to the commands
\* completed
ShellStep(cmd, arg_list, r) ==
    /\ Len(shell.done) < MaxCmds
    /\ shell' = [app |-> r.app,
                 done |-> IF r.err = "none"
                          THEN Append(shell.done, [cmd |-> cmd, args |-> arg_list])
                          ELSE shell.done]
    /\ last' = Outcome(r.err, r.calls)
    /\ UNCHANGED <<nodes, selected_file, codec, registered>>

DoSelectFile(arg_list, t) ==
    ShellStep("select_file", arg_list, do_select_file(shell.app, arg_list, t))

DoSelectAdf(arg_list, t) ==
    ShellStep("select_adf", arg_list, do_select_adf(shell.app, arg_list, t))

NextShell ==
    \/ \E arg_list \in FileArgs, t \in TransportResults : DoSelectFile(arg_list, t)
    \/ \E arg_list \in AdfArgs, t \in TransportResults : DoSelectAdf(arg_list, t)

SpecShell == Init /\ [][NextShell]_vars

-----------------------------------------------------------------------------
(* The codec of a leaf taken alone *)

ByteValues == {18, 171}
ByteStrings == UNION {[1..n -> ByteValues] : n \in 0..MaxLen}

\* the hex digits of a byte string
Hexlify(bs) == Join([i \in 1..Len(bs) |-> <<bs[i] \div 16, bs[i] % 16>>])

\* the abstract values handed to the encoders: None, an int, {}, [], a list of
\* one int, and, for each key the encoders of fs_sim.py look up, a dict with
\* that key; 70000 is an access control class that does not fit 16 bits
AbstractInputs ==
    {NoValue, IntValue(4779), EmptyDictValue, ListValue(<<>>), ListValue(<<IntValue(18)>>)}
      \cup {Dict("acc", IntValue(n)) : n \in {18, 4779, 70000}}
      \cup {Dict(k, Value("hex", <<1, 2>>)) : k \in {"imsi", "msisdn", "spn"}}

CodecInputs ==
    {Value("bytes", b) : b \in ByteStrings}
      \cup {Value("hex", Hexlify(b)) : b \in ByteStrings}
      \cup AbstractInputs

\* A leaf is an object of a class of filesystem.py (impl None), of one of the
\* classes of fs_sim.py that define codec methods, or of a class that presets
\* the codec methods to None, where they are there but not callable.
LeavesOf(classes, impls, names, rec_lens) ==
    {f \in {[cls |-> c, impl |-> i, dead |-> d, rec_len |-> r] :
               c \in classes, i \in impls, d \in {{}, names}, r \in rec_lens} :
        f.dead \cap HooksOf(f.impl) = {}}
CodecLeaves ==
    LeavesOf({"TransparentEF"},
             {None, "EF_IMSI", "EF_SPN", "EF_ACC", "EF_AD", "EF_ServiceTable"},
             TransparentHooks, {{}})
      \cup LeavesOf({"LinFixedEF"}, {None, "EF_ADN", "EF_MSISDN"}, RecordHooks, {{}})
      \cup LeavesOf({"CyclicEF"}, {None}, RecordHooks, {{}})
      \cup LeavesOf({"TransRecEF"}, {None}, RecordHooks,
                    {{}} \cup {{r} : r \in 0..MaxRecLen})

DecodeOps == {"decode_bin", "decode_hex", "decode_record_bin", "decode_record_hex"}
EncodeOps == {"encode_bin", "encode_hex", "encode_record_bin", "encode_record_hex"}

\* the classes that have the method op
HasMethod(f, op) ==
    IF op \in {"decode_bin", "decode_hex", "encode_bin", "encode_hex"}
    THEN IsTransparentEF(f.cls)
    ELSE IsLinFixedEF(f.cls) \/ f.cls = "TransRecEF"

\* f.op(v)
Apply(op, f, v) ==
    CASE op = "decode_bin" -> decode_bin(f, v)
      [] op = "decode_hex" -> decode_hex(f, v)
      [] op = "decode_record_bin" -> decode_record_bin(f, v)
      [] op = "decode_record_hex" -> decode_record_hex(f, v)
      [] op = "encode_bin" -> encode_bin(f, v)
      [] op = "encode_hex" -> encode_hex(f, v)
      [] op = "encode_record_bin" -> encode_record_bin(f, v)
      [] op = "encode_record_hex" -> encode_record_hex(f, v)

\* the representation an operation reads or writes
Repr(op) == IF op \in {"decode_bin", "decode_record_bin", "encode_bin", "encode_record_bin"}
            THEN "bytes" ELSE "hex"
\* the encoder that goes with a decoder
EncoderOf(op) ==
    CASE op = "decode_bin" -> "encode_bin"
      [] op = "decode_hex" -> "encode_hex"
      [] op = "decode_record_bin" -> "encode_record_bin"
      [] op = "decode_record_hex" -> "encode_record_hex"

InitCodec ==
    /\ nodes = <<MFObject>>
    /\ selected_file = 1
    /\ last = Outcome("none", NoCalls)
    /\ registered = {}
    /\ shell = NoCommands
    /\ codec \in {[leaf |-> f, x |-> x, via |-> "none", op |-> "new",
                   arg |-> NoValue, res |-> CodecOk(NoValue)] :
                      f \in CodecLeaves, x \in CodecInputs}

CodecStep(via, op, arg) ==
    /\ HasMethod(codec.leaf, op)
    /\ codec' = [codec EXCEPT !.via = via, !.op = op, !.arg = arg,
                              !.res = Apply(op, codec.leaf, arg)]
    /\ UNCHANGED <<nodes, selected_file, last, registered, shell>>

\* leaf.decode_*(x) on raw data of the matching representation
Decode(op) ==
    /\ codec.op = "new"
    /\ codec.x.tag = Repr(op)
    /\ CodecStep("new", op, codec.x)

\* leaf.encode_*(x) on an abstract value
Encode(op) ==
    /\ codec.op = "new"
    /\ codec.x \in AbstractInputs
    /\ CodecStep("new", op, codec.x)

\* leaf.encode_*(leaf.decode_*(x)): what a decoder returned goes back through
\* the encoder of the same representation
EncodeBack ==
    /\ codec.op \in DecodeOps
    /\ codec.res.err = "none"
    /\ CodecStep(codec.op, EncoderOf(codec.op), codec.res.val)

NextCodec ==
    \/ \E op \in DecodeOps : Decode(op)
    \/ \E op \in EncodeOps : Encode(op)
    \/ EncodeBack

SpecCodec == InitCodec /\ [][NextCodec]_vars

-----------------------------------------------------------------------------
(* Properties *)

Range(f) == {f[i] : i \in DOMAIN f}

\* the objects of the tree under the MF: those reached from it through child
\* maps and the application registry
RECURSIVE TreeClosure(_, _)
TreeClosure(h, S) ==
    LET T == S \cup UNION {Range(h[n].children) \cup Range(h[n].applications) : n \in S}
    IN IF T = S THEN S ELSE TreeClosure(h, T)
InTree(h) == TreeClosure(h, {1})

Maps(g, k, n) == g.err = "none" /\ k \in DOMAIN g.sels /\ g.sels[k] = n

\* C1: for every node n of the tree, get_selectables(n) maps '.' to n and '..'
\* to n's parent (for the MF: to the MF itself).
C1_DotAndDotDot ==
    \A n \in InTree(nodes) :
        LET g == get_selectables(nodes, n) IN
        /\ Maps(g, ".", n)
        /\ Maps(g, "..", nodes[n].parent)

\* any two entries of a child map differ in fid, in name when both have one, and
\* in sfid when both have one
SiblingsUnique(h) ==
    \A d \in Dirs(h) : \A i, j \in 1..Len(h[d].children) :
        i # j =>
          LET x == h[h[d].children[i]]
              y == h[h[d].children[j]]
          IN /\ h[d].children[i] # h[d].children[j]
             /\ x.fid # y.fid
             /\ (x.name # None /\ y.name # None) => x.name # y.name
             /\ (x.sfid # {} /\ y.sfid # {}) => x.sfid # y.sfid

\* inserting c into d would put two entries with the same fid, name or sfid
\* into d's child map
WouldBreak(h, d, c) ==
    \E i \in 1..Len(h[d].children) :
        LET x == h[h[d].children[i]] IN
        \/ x.fid = h[c].fid
        \/ (x.name # None /\ x.name = h[c].name)
        \/ (x.sfid # {} /\ x.sfid = h[c].sfid)

\* C2: after any sequence of add_file / add_files calls (and constructor
\* insertions) the entries of every child map are pairwise different in fid,
\* name and sfid; an insertion that would break this raises, or with
\* ignore_existing may return silently, and leaves the heap as it was.
C2_SiblingsUnique ==
    /\ SiblingsUnique(nodes)
    /\ \A d \in Dirs(nodes), c \in 1..Len(nodes), ig \in BOOLEAN :
          WouldBreak(nodes, d, c) =>
            LET r == add_file(nodes, d, c, ig) IN
            /\ r.heap = nodes
            /\ r.err = "ValueError" \/ (ig /\ r.err = "none")
    /\ \A d \in Dirs(nodes), cs \in ChildLists, ig \in BOOLEAN :
          SiblingsUnique(add_files(nodes, d, cs, ig).heap)

\* a directory holds a child, another object with the same name is outside it,
\* and the last call raised
C2_Witness ==
    /\ last.err = "ValueError"
    /\ \E d \in Dirs(nodes), c \in 1..Len(nodes) :
          /\ c \notin Range(nodes[d].children)
          /\ \E x \in Range(nodes[d].children) :
                /\ x # c
                /\ nodes[x].name # None
                /\ nodes[x].name = nodes[c].name

\* C3: select of an identifier that is no key of get_selectables(selected_file)
\* raises ValueError ("Cannot select unknown"), makes no transport call and
\* leaves selected_file as it was.
C3_UnknownSelect ==
    \A name \in Identifiers, t \in TransportResults :
        LET g == get_selectables(nodes, selected_file)
            r == select(nodes, selected_file, name, t)
        IN name \notin DOMAIN g.sels =>
             /\ r.err = "ValueError"
             /\ r.calls = NoCalls
             /\ r.sel = selected_file

\* C4: select of a key of get_selectables(selected_file) makes exactly one
\* transport call, select_adf(aid) exactly when the resolved node is an ADF and
\* select_file(fid) otherwise; selected_file becomes the resolved node when the
\* transport select succeeds and stays as it was when it does not.
C4_SelectTransport ==
    \A name \in Identifiers, t \in TransportResults :
        LET g == get_selectables(nodes, selected_file)
            r == select(nodes, selected_file, name, t)
        IN (g.err = "none" /\ name \in DOMAIN g.sels) =>
             LET f == g.sels[name] IN
             /\ Len(r.calls) = 1
             /\ IF nodes[f].cls = "ADF"
                THEN r.calls[1].fn = "select_adf" /\ r.calls[1].key = nodes[f].aid
                ELSE r.calls[1].fn = "select_file" /\ r.calls[1].key = nodes[f].fid
             /\ t = SW_OK => r.sel = f
             /\ t # SW_OK => r.sel = selected_file

\* the last call reached the transport as fn
LastCall(fn) == last.calls # NoCalls /\ last.calls[1].fn = fn

\* C5: read_binary and update_binary raise TypeError and make no transport call
\* unless selected_file is a TransparentEF or a TransRecEF; when it is, they make
\* exactly one transport call, keyed by its fid.
C5_BinaryGate ==
    LET cur == nodes[selected_file] IN
    /\ \A l \in Lengths, x \in DataHex, o \in Offsets, t \in TransportResults :
          LET r == read_binary(nodes, selected_file, l, o, t)
              u == update_binary(nodes, selected_file, x, o, t)
          IN IF cur.cls \in {"TransparentEF", "TransRecEF"}
             THEN /\ r.err # "TypeError" /\ Len(r.calls) = 1
                  /\ r.calls[1].fn = "read_binary" /\ r.calls[1].key = cur.fid
                  /\ u.err # "TypeError" /\ Len(u.calls) = 1
                  /\ u.calls[1].fn = "update_binary" /\ u.calls[1].key = cur.fid
             ELSE /\ r.err = "TypeError" /\ r.calls = NoCalls
                  /\ u.err = "TypeError" /\ u.calls = NoCalls
    /\ (LastCall("read_binary") \/ LastCall("update_binary")) =>
          /\ cur.cls \in {"TransparentEF", "TransRecEF"}
          /\ Len(last.calls) = 1
          /\ last.calls[1].key = cur.fid

\* a TransRecEF is selected and read_binary went to the transport
C5_Witness ==
    /\ nodes[selected_file].cls = "TransRecEF"
    /\ LastCall("read_binary")

\* C6: read_record and update_record raise TypeError and make no transport call
\* unless selected_file is a LinFixedEF or a CyclicEF; when it is, they make
\* exactly one transport call, keyed by its fid and the record number.
C6_RecordGate ==
    LET cur == nodes[selected_file] IN
    /\ \A n \in RecNrs, x \in DataHex, t \in TransportResults :
          LET r == read_record(nodes, selected_file, n, t)
              u == update_record(nodes, selected_file, n, x, t)
          IN IF cur.cls \in {"LinFixedEF", "CyclicEF"}
             THEN /\ r.err # "TypeError" /\ Len(r.calls) = 1
                  /\ r.calls[1].fn = "read_record" /\ r.calls[1].key = cur.fid
                  /\ r.calls[1].args[1] = n
                  /\ u.err # "TypeError" /\ Len(u.calls) = 1
                  /\ u.calls[1].fn = "update_record" /\ u.calls[1].key = cur.fid
                  /\ u.calls[1].args[1] = n
             ELSE /\ r.err = "TypeError" /\ r.calls = NoCalls
                  /\ u.err = "TypeError" /\ u.calls = NoCalls
    /\ (LastCall("read_record") \/ LastCall("update_record")) =>
          /\ cur.cls \in {"LinFixedEF", "CyclicEF"}
          /\ Len(last.calls) = 1
          /\ last.calls[1].key = cur.fid
          /\ last.calls[1].args[1] \in RecNrs

\* a CyclicEF is selected and update_record went to the transport
C6_Witness ==
    /\ nodes[selected_file].cls = "CyclicEF"
    /\ LastCall("update_record")

\* C7: for every node n of the tree, get_selectables(n) maps the AID of every
\* registered application to it, and its name when it has one.
C7_AppsEverywhere ==
    \A n \in InTree(nodes) :
        LET g == get_selectables(nodes, n) IN
        \A a \in Range(nodes[1].applications) :
            /\ Maps(g, nodes[a].aid, a)
            /\ nodes[a].name # None => Maps(g, nodes[a].name, a)

\* C8: with the MF selected and a named application registered, select(aid)
\* and then select(name) both succeed and each leaves that application selected.
C8_AidThenName ==
    selected_file = 1 =>
      \A a \in Range(nodes[1].applications) :
          nodes[a].name # None =>
            LET r1 == select(nodes, 1, nodes[a].aid, SW_OK)
                r2 == select(nodes, r1.sel, nodes[a].name, SW_OK)
            IN /\ r1.err = "none" /\ r1.sel = a
               /\ r2.err = "none" /\ r2.sel = a

\* the tree of the __main__ example: the MF, the application ADF_USIM registered
\* at it, and the leaf EF.IMSI in the application's child map
ExampleTree(h) ==
    /\ Len(h) = 3
    /\ h[2].cls = "ADF" /\ h[2].aid = AID_USIM /\ h[2].name = "ADF_USIM"
    /\ h[3].cls = "TransparentEF" /\ h[3].fid = "6f07" /\ h[3].name = "EF.IMSI"
    /\ h[1].applications = <<2>>
    /\ h[1].children = <<>>
    /\ h[2].children = <<3>>

\* C9: in the example tree get_selectables(MF) maps the AID and 'ADF_USIM' to
\* the application; after select('ADF_USIM') from the initial session state
\* get_selectables(selected_file) maps '6f07' and 'EF.IMSI' to the leaf, holds
\* '..', and maps '.' to the application.
C9_ExampleScenario ==
    (ExampleTree(nodes) /\ selected_file = 1) =>
      LET g0 == get_selectables(nodes, 1)
          r == select(nodes, 1, "ADF_USIM", SW_OK)
          g == get_selectables(nodes, r.sel)
      IN /\ Maps(g0, AID_USIM, 2)
         /\ Maps(g0, "ADF_USIM", 2)
         /\ r.err = "none" /\ r.sel = 2
         /\ Maps(g, "6f07", 3)
         /\ Maps(g, "EF.IMSI", 3)
         /\ g.err = "none" /\ ".." \in DOMAIN g.sels
         /\ Maps(g, ".", 2)

\* C10: for every node of the tree fully_qualified_path returns, and the first
\* element of its result is the MF's name or fid.
C10_PathFromRoot ==
    \A n \in InTree(nodes), prefer_name \in BOOLEAN :
        LET p == fully_qualified_path(nodes, n, prefer_name) IN
        /\ p.err = "none"
        /\ p.path # <<>>
        /\ p.path[1] \in {"MF", "3f00"}

\* the record length of a TransRecEF built with a positive rec_len
HasRecLen(f) == f.cls = "TransRecEF" /\ f.rec_len # {} /\ f.rec_len # {0}
RecLen(f) == CHOOSE r \in f.rec_len : TRUE

\* the bytes a hex string stands for
Unhexlify(hs) == [i \in 1..(Len(hs) \div 2) |-> hs[2 * i - 1] * 16 + hs[2 * i]]

\* C11: for a TransRecEF with record length R and every byte string raw whose
\* length is a multiple of R, encode_bin(decode_bin(raw)) returns raw.
C11_RoundTrip ==
    LET f == codec.leaf
        x == codec.x
    IN (HasRecLen(f) /\ x.tag = "bytes" /\ Len(x.data) % RecLen(f) = 0) =>
         LET d == decode_bin(f, x)
             e == encode_bin(f, d.val)
         IN /\ d.err = "none"
            /\ e.err = "none"
            /\ e.val = x

\* what the codec contract makes of raw bytes x on the leaf f: the outcome of
\* the binary decoder, else that of the hex decoder on the hex form, else the
\* wrapper around the bytes
ContractDecode(f, x) ==
    IF "_decode_bin" \in HooksOf(f.impl) THEN UserHook(f, "_decode_bin", x)
    ELSE IF "_decode_hex" \in HooksOf(f.impl)
         THEN UserHook(f, "_decode_hex", Value("hex", Hexlify(x.data)))
         ELSE CodecOk(Value("raw", x.data))
\* the same for a hex string x, hex decoder first
ContractDecodeHex(f, x) ==
    IF "_decode_hex" \in HooksOf(f.impl) THEN UserHook(f, "_decode_hex", x)
    ELSE IF "_decode_bin" \in HooksOf(f.impl)
         THEN UserHook(f, "_decode_bin", Value("bytes", Unhexlify(x.data)))
         ELSE CodecOk(Value("raw", Unhexlify(x.data)))

\* C12: on a TransparentEF, for each of the four combinations of defined
\* decoders, decode_bin returns the binary decoder's result if there is one,
\* else the hex decoder's result on the hex form, else {'raw': bytes};
\* decode_hex does the same with the hex decoder first.
C12_DecodeDispatch ==
    LET f == codec.leaf
        x == codec.x
    IN f.cls = "TransparentEF" =>
         /\ x.tag = "bytes" => decode_bin(f, x) = ContractDecode(f, x)
         /\ x.tag = "hex" => decode_hex(f, x) = ContractDecodeHex(f, x)

\* C13: on a TransparentEF that defines neither _encode_bin nor _encode_hex,
\* encode_bin and encode_hex raise NotImplementedError; on one that defines
\* exactly one of the two, both return for a value that encoder returns on.
C13_EncodeDispatch ==
    LET f == codec.leaf
        x == codec.x
        defined == HooksOf(f.impl) \cap {"_encode_bin", "_encode_hex"}
    IN (f.cls = "TransparentEF" /\ x \in AbstractInputs) =>
         /\ defined = {} => /\ encode_bin(f, x).err = "NotImplementedError"
                            /\ encode_hex(f, x).err = "NotImplementedError"
         /\ ( /\ Cardinality(defined) = 1
              /\ \A hk \in defined : UserHook(f, hk, x).err = "none" ) =>
                /\ encode_bin(f, x).err = "none"
                /\ encode_hex(f, x).err = "none"

\* C14: for a TransRecEF with record length R and a byte string raw of length
\* L, decode_bin(raw) is a list of ceil(L/R) values, the i-th being
\* decode_record_bin of bytes [i*R, min((i+1)*R, L)) of raw; the chunks
\* concatenate to raw and only the last may be shorter than R.
C14_Chunking ==
    LET f == codec.leaf
        x == codec.x
    IN (HasRecLen(f) /\ x.tag = "bytes") =>
         LET R == RecLen(f)
             L == Len(x.data)
             n == (L + R - 1) \div R
             chunk(i) == SubSeq(x.data, (i - 1) * R + 1, Min(i * R, L))
             d == decode_bin(f, x)
         IN /\ d.err = "none"
            /\ d.val.tag = "list"
            /\ Len(d.val.list) = n
            /\ \A i \in 1..n :
                  /\ decode_record_bin(f, Value("bytes", chunk(i))) = CodecOk(d.val.list[i])
                  /\ i < n => Len(chunk(i)) = R
                  /\ Len(chunk(i)) \in 1..R
            /\ Join([i \in 1..n |-> chunk(i)]) = x.data

\* C15: in every tree state no node other than the MF that is held in a child
\* map or in the application registry has a name in RESERVED_NAMES or the fid
\* '3f00'.
C15_NoReservedInTree ==
    \A d \in Dirs(nodes) :
        \A c \in Range(nodes[d].children) \cup Range(nodes[d].applications) :
            c # 1 => /\ nodes[c].name \notin RESERVED_NAMES
                     /\ nodes[c].fid \notin RESERVED_FIDS

\* C16: with ignore_existing, add_file of a child whose fid, sfid or name is
\* that of an entry of the child map returns without raising and changes
\* neither the child map nor the child's parent.
C16_IgnoreExisting ==
    \A d \in Dirs(nodes), c \in 1..Len(nodes) :
        ( /\ nodes[c].name \notin RESERVED_NAMES
          /\ nodes[c].fid \notin RESERVED_FIDS
          /\ WouldBreak(nodes, d, c) ) =>
            LET r == add_file(nodes, d, c, TRUE) IN
            /\ r.err = "none"
            /\ r.heap[d].children = nodes[d].children
            /\ r.heap[c].parent = nodes[c].parent

\* the registry holds an application with the AID of a
AidRegistered(h, a) == \E b \in Range(h[1].applications) : h[b].aid = h[a].aid

\* C17: add_application of an ADF whose AID is registered raises ValueError and
\* leaves the registry as it was; no registration, by add_application or by
\* the ADF constructor, touches the entries already there, so the AIDs of the
\* registry are pairwise different and each stays with the first ADF
\* registered under it.
C17_FirstAidStays ==
    LET apps == nodes[1].applications IN
    /\ \A i, j \in 1..Len(apps) : i # j => nodes[apps[i]].aid # nodes[apps[j]].aid
    /\ \A a \in 1..Len(nodes) :
          LET r == add_application(nodes, 1, a) IN
          /\ SubSeq(r.heap[1].applications, 1, Len(apps)) = apps
          /\ (IsADF(nodes[a].cls) /\ AidRegistered(nodes, a)) =>
                r.err = "ValueError" /\ r.heap = nodes
    /\ \A i \in 1..Len(Catalogue) :
          LET r == Construct(nodes, Catalogue[i], 1) IN
          /\ SubSeq(r.heap[1].applications, 1, Len(apps)) = apps
          /\ (IsADF(Catalogue[i].cls)
                /\ \E b \in Range(apps) : nodes[b].aid = Catalogue[i].aid) =>
                r.err = "ValueError" /\ r.heap[1].applications = apps

\* an ADF outside the registry has the AID of a registered one, and the last
\* call raised
C17_Witness ==
    /\ last.err = "ValueError"
    /\ \E a \in 1..Len(nodes) :
          /\ IsADF(nodes[a].cls)
          /\ a \notin Range(nodes[1].applications)
          /\ AidRegistered(nodes, a)

\* C18: read_binary_dec and update_binary_dec raise TypeError and make no
\* transport call unless selected_file is a TransparentEF or TransRecEF; when
\* it is, read_binary_dec returns decode_hex of the data of one transport
\* read_binary together with its status, and update_binary_dec makes exactly
\* one transport update_binary keyed by the fid, with encode_hex of the value.
C18_BinaryDecoded ==
    LET cur == nodes[selected_file] IN
    \A t \in TransportResults, v \in AbstractValues :
        LET r == read_binary_dec(nodes, selected_file, t)
            u == update_binary_dec(nodes, selected_file, v)
            d == decode_hex(cur, ReadData)
            e == encode_hex(cur, v)
        IN IF cur.cls \in {"TransparentEF", "TransRecEF"}
           THEN /\ Len(r.calls) = 1
                /\ r.calls[1].fn = "read_binary" /\ r.calls[1].key = cur.fid
                /\ d.err = "none" =>
                      r.err = "none" /\ r.ret = [val |-> d.val, sw |-> t]
                /\ e.err = "none" =>
                      /\ Len(u.calls) = 1
                      /\ u.calls[1].fn = "update_binary" /\ u.calls[1].key = cur.fid
                      /\ u.calls[1].args[1] = e.val
           ELSE /\ r.err = "TypeError" /\ r.calls = NoCalls
                /\ u.err = "TypeError" /\ u.calls = NoCalls

\* C19: read_record_dec and update_record_dec raise TypeError and make no
\* transport call unless selected_file is a LinFixedEF or CyclicEF; when it is,
\* read_record_dec returns decode_record_hex of the data of one transport
\* read_record(fid, rec_nr) together with its status, and update_record_dec
\* makes exactly one transport update_record(fid, rec_nr, encode_record_hex of
\* the value).
C19_RecordDecoded ==
    LET cur == nodes[selected_file] IN
    \A t \in TransportResults, v \in AbstractValues, n \in RecNrs :
        LET r == read_record_dec(nodes, selected_file, n, t)
            u == update_record_dec(nodes, selected_file, n, v)
            d == decode_record_hex(cur, ReadData)
            e == encode_record_hex(cur, v)
        IN IF cur.cls \in {"LinFixedEF", "CyclicEF"}
           THEN /\ Len(r.calls) = 1
                /\ r.calls[1].fn = "read_record" /\ r.calls[1].key = cur.fid
                /\ r.calls[1].args[1] = n
                /\ d.err = "none" =>
                      r.err = "none" /\ r.ret = [val |-> d.val, sw |-> t]
                /\ e.err = "none" =>
                      /\ Len(u.calls) = 1
                      /\ u.calls[1].fn = "update_record" /\ u.calls[1].key = cur.fid
                      /\ u.calls[1].args = <<n, e.val>>
           ELSE /\ r.err = "TypeError" /\ r.calls = NoCalls
                /\ u.err = "TypeError" /\ u.calls = NoCalls

\* C20: selected_file is the MF when the session is created, and a step that
\* changes it is a select: the raw and the decoded read and update operations
\* leave it as it was, whether they return or raise.
C20_OnlySelectMoves ==
    /\ selected_file = 1
    /\ [][selected_file' # selected_file =>
            \E name \in Identifiers, t \in TransportResults : Select(name, t)]_vars

\* a leaf is selected and a decoded update has just raised on the undefined
\* name data_hex
C20_Witness ==
    /\ selected_file # 1
    /\ IsEF(nodes[selected_file].cls)
    /\ last.err = "NameError"

\* C21: for every directory d (the MF and the applications included) and every
\* entry c of d's child map, get_selectables(d) maps c's fid to c and, when c
\* has a name, c's name to c.
C21_ChildrenReachable ==
    \A d \in Dirs(nodes) : \A c \in Range(nodes[d].children) :
        LET g == get_selectables(nodes, d) IN
        /\ nodes[c].fid # None => Maps(g, nodes[c].fid, c)
        /\ nodes[c].name # None => Maps(g, nodes[c].name, c)

\* the named leaves next to leaf n in the child map of n's parent
NamedSiblingLeaves(h, n) ==
    {x \in Range(h[h[n].parent].children) :
        x # n /\ IsEF(h[x].cls) /\ h[x].name # None}

\* C22: for every leaf n with a parent, the keys the sibling rule of
\* EF.get_selectables adds are exactly the names of the named sibling leaves of
\* n, each mapped to that sibling: not n itself, no key for a sibling without a
\* name, no sibling under its fid.
C22_SiblingRule ==
    \A n \in 1..Len(nodes) :
        (IsEF(nodes[n].cls) /\ nodes[n].parent # 0) =>
          LET s == SiblingDict(nodes, nodes[nodes[n].parent].children, n)
              sib == NamedSiblingLeaves(nodes, n)
          IN /\ DOMAIN s = {nodes[x].name : x \in sib}
             /\ \A x \in sib : s[nodes[x].name] = x

\* C23: get_mf(n) returns None when n's parent is unset, and otherwise ends
\* and returns an object whose parent is itself; for every object built by
\* constructors and insertions, those under a directory or an application
\* that was given no parent included.
C23_LocateRoot ==
    \A n \in 1..Len(nodes) :
        LET m == get_mf(nodes, n) IN
        /\ m.err = "none"
        /\ nodes[n].parent = 0 => m.mf = 0
        /\ nodes[n].parent # 0 => (m.mf # 0 /\ nodes[m.mf].parent = m.mf)

\* the objects below d: reached from S through child maps only
RECURSIVE Descendants(_, _)
Descendants(h, S) ==
    LET T == S \cup UNION {Range(h[n].children) : n \in S}
    IN IF T = S THEN S ELSE Descendants(h, T)

\* C24: after any sequence of constructions and add_file / add_files calls every
\* object is in the child map of at most one directory, every entry c of the
\* child map of a directory d has d as its parent, and no directory is below
\* itself.
C24_ExclusiveOwnership ==
    /\ \A c \in 1..Len(nodes) :
          Cardinality({d \in Dirs(nodes) : c \in Range(nodes[d].children)}) <= 1
    /\ \A d \in Dirs(nodes) : \A c \in Range(nodes[d].children) : nodes[c].parent = d
    /\ \A d \in Dirs(nodes) : d \notin Descendants(nodes, Range(nodes[d].children))

\* C25: when get_selectables(d) returns for a directory d (the MF included), a
\* key made both by a registered application (its AID or name) and by an entry
\* c of d's child map (its fid or name) resolves to c: the children are the
\* later source.
C25_LaterSourceWins ==
    \A d \in Dirs(nodes) : \A c \in Range(nodes[d].children) :
        LET g == get_selectables(nodes, d)
            apps == DOMAIN get_app_selectables(nodes, 1)
        IN g.err = "none" =>
             /\ (nodes[c].fid # None /\ nodes[c].fid \in apps) => Maps(g, nodes[c].fid, c)
             /\ (nodes[c].name # None /\ nodes[c].name \in apps) => Maps(g, nodes[c].name, c)

\* C26: for every node n of the tree and both values of prefer_name,
\* fully_qualified_path(n) returns; for the MF it is the MF's own element, for
\* any other node it is the path of the directory that holds n (in its child
\* map or application registry) followed by n's own element: the name when
\* prefer_name is set and n has one, else the AID for an application and the
\* fid for any other node.
C26_PathElements ==
    \A n \in InTree(nodes), prefer_name \in BOOLEAN :
        LET p == fully_qualified_path(nodes, n, prefer_name) IN
        /\ p.err = "none"
        /\ n = 1 => p.path = <<path_element(nodes, 1, prefer_name)>>
        /\ n # 1 =>
             \E d \in InTree(nodes) :
                 LET q == fully_qualified_path(nodes, d, prefer_name) IN
                 /\ n \in Range(nodes[d].children) \cup Range(nodes[d].applications)
                 /\ q.err = "none"
                 /\ p.path = Append(q.path, path_element(nodes, n, prefer_name))

\* C27: with a shell attached, a select unregisters the old file's command
\* sets and registers the new file's only as part of a transition whose
\* transport select succeeded, and after every select call (successful,
\* rejected as unknown, or failed at the transport) the command sets registered
\* at the shell are exactly the command sets of selected_file.
C27_HandOffOnSuccess ==
    /\ registered = shell_commands(nodes, selected_file)
    /\ [][/\ registered' = shell_commands(nodes', selected_file')
          /\ registered' # registered =>
                \E name \in Identifiers : Select(name, SW_OK)]_vars

\* a hex string; what an enc_ function of pySim.utils returns is taken for one
IsHexString(v) == v.tag \in {"hex", "enc_imsi", "enc_msisdn", "enc_spn"}

\* C28: for every leaf and every set of codec methods its class defines, the
\* hex and the binary direction go together: on a hex string and on the bytes
\* it stands for, the hex decoder returns exactly when the binary decoder
\* does; on an abstract value the hex encoder returns exactly when the binary
\* encoder does, the one a hex string and the other bytes.  The same for the
\* per-record operations.
C28_HexBinAgree ==
    LET f == codec.leaf
        x == codec.x
        b == Value("bytes", Unhexlify(x.data))
    IN /\ (x.tag = "hex" /\ IsTransparentEF(f.cls)) =>
             (decode_hex(f, x).err = "none" <=> decode_bin(f, b).err = "none")
       /\ (x.tag = "hex" /\ HasMethod(f, "decode_record_hex")) =>
             (decode_record_hex(f, x).err = "none" <=> decode_record_bin(f, b).err = "none")
       /\ (x \in AbstractInputs /\ IsTransparentEF(f.cls)) =>
             LET eh == encode_hex(f, x)
                 eb == encode_bin(f, x)
             IN /\ eh.err = "none" <=> eb.err = "none"
                /\ eh.err = "none" => IsHexString(eh.val)
                /\ eb.err = "none" => eb.val.tag = "bytes"
       /\ (x \in AbstractInputs /\ HasMethod(f, "encode_record_hex")) =>
             LET eh == encode_record_hex(f, x)
                 eb == encode_record_bin(f, x)
             IN /\ eh.err = "none" <=> eb.err = "none"
                /\ eh.err = "none" => IsHexString(eh.val)
                /\ eb.err = "none" => eb.val.tag = "bytes"

\* C29: add_files(children, ignore_existing) inserts the children in list order
\* as successive add_file calls would: when the first insertion raises nothing
\* is inserted; when the second raises the first child stays inserted with its
\* parent set and the second is not inserted; the error is the one add_file
\* raised.
C29_AddFilesInOrder ==
    \A d \in Dirs(nodes), cs \in ChildLists, ig \in BOOLEAN :
        LET r == add_files(nodes, d, cs, ig)
            r1 == add_file(nodes, d, cs[1], ig)
            r2 == add_file(r1.heap, d, cs[2], ig)
        IN IF r1.err # "none"
           THEN r.err = r1.err /\ r.heap = nodes
           ELSE /\ r.err = r2.err
                /\ r.heap = r2.heap
                /\ r2.err # "none" =>
                     /\ r.heap = r1.heap
                     /\ r1.heap # nodes =>
                          /\ cs[1] \in Range(r.heap[d].children)
                          /\ r.heap[cs[1]].parent = d
                          /\ r.heap[d].children = Append(nodes[d].children, cs[1])

\* a call raised, and a directory holds a child of its own while an object with
\* the same fid stays outside its child map: the state a list insertion is in
\* after its second child was rejected
C29_Witness ==
    /\ last.err = "ValueError"
    /\ \E d \in Dirs(nodes), c1, c2 \in 2..Len(nodes) :
          /\ c1 # c2
          /\ c1 \in Range(nodes[d].children)
          /\ nodes[c1].parent = d
          /\ c2 \notin Range(nodes[d].children)
          /\ nodes[c2].fid = nodes[c1].fid
          /\ add_files(nodes, d, <<c2, c1>>, FALSE).err = "ValueError"

\* C30: when the construction of an application with a parent raises, the
\* parent's child map and application registry are what they were before; and
\* an application constructed with a parent and a fid is in the parent's child
\* map exactly when it is in the parent's application registry.
C30_FailedApplicationLeavesParent ==
    \A i \in 1..Len(Catalogue), p \in Dirs(nodes) :
        IsADF(Catalogue[i].cls) =>
          LET r == Construct(nodes, Catalogue[i], p)
              self == Len(nodes) + 1
          IN /\ r.err # "none" =>
                  /\ r.heap[p].children = nodes[p].children
                  /\ r.heap[p].applications = nodes[p].applications
             /\ (Len(r.heap) >= self /\ Catalogue[i].fid # None) =>
                  (self \in Range(r.heap[p].children)
                      <=> self \in Range(r.heap[p].applications))

\* RuntimeState.get_cwd(): the selected file when it is a DF, else its parent
\* (0 is None)
get_cwd(h, cur) == IF IsDF(h[cur].cls) THEN cur ELSE h[cur].parent

\* C31: after any sequence of select calls selected_file is an object of the
\* tree (the MF, a registered application, or reached from those through child
\* maps), and get_cwd() returns a directory: selected_file itself when it is
\* one, else its parent.
C31_CurrentInTree ==
    /\ selected_file \in InTree(nodes)
    /\ LET cwd == get_cwd(nodes, selected_file) IN
       /\ cwd # 0
       /\ IsDF(nodes[cwd].cls)

\* a leaf of the tree is selected whose parent pointer leads to a directory
\* outside the tree (the leaf was inserted a second time), and the select tried
\* from there raised
C31_Witness ==
    /\ IsEF(nodes[selected_file].cls)
    /\ selected_file \in InTree(nodes)
    /\ nodes[selected_file].parent \notin InTree(nodes)
    /\ last.err = "AttributeError"

\* the selections the completed commands made, one by one, after the '3f00'
\* the shell starts with
RECURSIVE Selections(_)
Selections(done) ==
    IF done = <<>> THEN <<[adf |-> FALSE, id |-> "3f00"]>>
    ELSE LET c == done[Len(done)]
             before == Selections(SubSeq(done, 1, Len(done) - 1))
         IN IF c.cmd = "select_adf"
            THEN Append(before, [adf |-> TRUE, id |-> c.args[1]])
            ELSE before \o [i \in 1..Len(c.args) |-> [adf |-> FALSE, id |-> c.args[i]]]

\* the last selection that starts a path: a select_adf, or a '3f00'
PathStart(sel) ==
    Max({i \in 1..Len(sel) : sel[i].adf \/ sel[i].id = "3f00"})

\* C32: after any sequence of select_file and select_adf commands the path is
\* not empty; it holds, in order, the selections made since the most recent
\* select_adf or '3f00', so that its first element is '3f00' or the AID of the
\* most recent select_adf not followed by a '3f00'; and the prompt is the one
\* made from the path.
C32_ShellPath ==
    LET sel == Selections(shell.done)
        k == PathStart(sel)
        path == shell.app.path
    IN /\ path # <<>>
       /\ path = [i \in 1..(Len(sel) - k + 1) |-> sel[k + i - 1].id]
       /\ path[1] = "3f00" \/ (sel[k].adf /\ path[1] = sel[k].id)
       /\ shell.app.prompt = <<"pySIM-shell (">> \o SlashJoin(path) \o <<")> ">>

\* an application was selected, and a select_file that names '3f00' in the
\* middle of its arguments came after it, its transport call answered with a
\* failure status
C32_Witness ==
    /\ Len(shell.done) >= 2
    /\ shell.done[Len(shell.done) - 1].cmd = "select_adf"
    /\ shell.done[Len(shell.done)].cmd = "select_file"
    /\ shell.done[Len(shell.done)].args = <<"6f07", "3f00">>
    /\ shell.app.path = <<"3f00">>
    /\ last.calls = <<Call("select_file", <<"6f07", "3f00">>, <<>>, SW_NOT_FOUND)>>

====
